---- MODULE Spec2Model ----
(***************************************************************************)
(* A model of the two coordination primitives of ndc-sdk-rs:               *)
(*                                                                         *)
(*   - Throttle (crates/sdk/src/throttle.rs): every call of next() is a    *)
(*     process that moves through the await points of decide() and of the  *)
(*     future decide() returns.  The code between two await points is one  *)
(*     atomic action.  Both tokio mutexes (the throttle state lock and the *)
(*     lock of each batch) are modelled with their holder.                  *)
(*   - the lazy ServerState (crates/sdk/src/state.rs and                    *)
(*     crates/sdk-core/src/state.rs): every call of state() is a process   *)
(*     that moves through the await points of OnceCell::get_or_try_init.   *)
(*                                                                         *)
(* Time is a discrete clock.  Values produced by the wrapped operation and *)
(* by the state factory are the index of the execution that produced them, *)
(* as for the counter operation of the throttle's tests.                   *)
(***************************************************************************)
EXTENDS Integers, Sequences, FiniteSets, TLC

\* The number of next() calls made in a behaviour.
MaxCalls == 3
\* The clock advances freely up to MaxTime, and beyond it only while a driver sleeps.
MaxTime == 2
\* The interval the Throttle is constructed with, in clock ticks.
Interval == 1

\* The number of state() calls made in a behaviour.
MaxStateCalls == 4

\* The number of clones made of the ServerState in a behaviour.
MaxClones == 1

\* The number of configuration() calls made in a behaviour.
MaxConfigCalls == 3

Calls == 1..MaxCalls
StateCalls == 1..MaxStateCalls

\* The configurations a ServerState may be constructed with.
Configurations == {"configA", "configB"}

\* No value: an empty channel, a call that has not returned.
NoValue == -1

VARIABLES
    now,          \* the clock (tokio::time::Instant::now())
    state,        \* Throttle::state, the ThrottleState
    stateLock,    \* the holder of the Mutex around Throttle::state, 0 when free
    batches,      \* every Arc<Mutex<RunningState>> created so far, by batch id
    batchLock,    \* the holder of each batch's Mutex, 0 when free
    pc,           \* where each next() call is
    loc,          \* the locals of each call: its batch, start, delayed_start, value
    chan,         \* the oneshot channel of each call: NoValue or the value sent
    ret,          \* the Output each call returned
    starts,       \* history: the executions of Operation::run, in order of start
    finished,     \* history: the values of the executions that have returned
    hist,         \* history: what each call found when it inspected the state
    together,     \* history: every call so far was issued at time 0, before any return
    cell,         \* ApplicationState::cell, the OnceCell: NoValue when empty
    permit,       \* the holder of the OnceCell's semaphore permit, 0 when free
    cpc,          \* where each state() call is
    cret,         \* what each state() call returned
    chow,         \* history: how each state() call got its result
    attempts,     \* history: the invocations of try_init_state, in order
    behind,       \* history: the first failed attempt each state() call waited behind
    configuration, \* ServerState::configuration
    confCalls,    \* the number of configuration() calls made
    confSeen,     \* what the last configuration() call returned
    confAt,       \* history: the phases of the cell configuration() was called in
    handles,      \* the ServerState values: the one constructed, then its clones
    via           \* the ServerState each state() call is made through, 0 before it

tvars == <<now, state, stateLock, batches, batchLock, pc, loc, chan, ret,
           starts, finished, hist, together>>
cvars == <<cell, permit, cpc, cret, chow, attempts, behind,
           configuration, confCalls, confSeen, confAt, handles, via>>
vars == <<now, state, stateLock, batches, batchLock, pc, loc, chan, ret,
          starts, finished, hist, together, cell, permit, cpc, cret, chow, attempts,
          behind, configuration, confCalls, confSeen, confAt, handles, via>>

-----------------------------------------------------------------------------
(* ThrottleState and RunningState *)

NeverRun == [tag |-> "NeverRun"]
Idle(last_run) == [tag |-> "Idle", last_run |-> last_run]
RunningForgotten(b) == [tag |-> "NeverRun"]
Running(b) == [tag |-> "Running", batch |-> b]

RunningStateDone(waiters) == [tag |-> "Finished", waiters |-> waiters, value |-> NoValue]
RunningStateRunning(waiters) == [tag |-> "Running", waiters |-> waiters, value |-> NoValue]
RunningStateFinished(v) == [tag |-> "Finished", waiters |-> <<>>, value |-> v]

NoLoc == [batch |-> 0, start |-> 0, delayed_start |-> 0, value |-> NoValue]
NoHist == [found |-> "none", seen |-> {}, last_run |-> NoValue, dropped |-> "none"]

ThrottleNew ==
    /\ now = 0
    /\ state = NeverRun
    /\ stateLock = 0
    /\ batches = <<>>
    /\ batchLock = <<>>
    /\ pc = [c \in Calls |-> "notStarted"]
    /\ loc = [c \in Calls |-> NoLoc]
    /\ chan = [c \in Calls |-> NoValue]
    /\ ret = [c \in Calls |-> NoValue]
    /\ starts = <<>>
    /\ finished = {}
    /\ hist = [c \in Calls |-> NoHist]
    /\ together = TRUE

-----------------------------------------------------------------------------
(* Throttle::next and Throttle::decide *)

\* The number of calls that have returned.
NumDone == Cardinality({c \in Calls : pc[c] = "done"})

\* A task calls next(): decide() starts and awaits the state lock.
\* Calls are interchangeable, so they are issued in the order of their ids.
NextCall(c) ==
    /\ pc[c] = "notStarted"
    /\ \A d \in Calls : d < c => pc[d] # "notStarted"
    /\ pc' = [pc EXCEPT ![c] = "decide"]
    /\ together' = (together /\ now = 0 /\ NumDone = 0)
    /\ UNCHANGED <<now, state, stateLock, batches, batchLock, loc, chan, ret,
                   starts, finished, hist, cvars>>

\* The first match of decide(): the instant before which the operation must not run.
\* NeverRun needs no delay; Idle sleeps until last_run + interval.
DelayedStartNoInterval(s) ==
    IF s.tag = "Idle" THEN s.last_run ELSE 0
DelayedStart(s) ==
    IF s.tag = "Idle" THEN s.last_run + Interval ELSE 0

\* The arm of the second match that starts a new operation.
NothingRunningAlways(s) == TRUE
NothingRunning(s) == s.tag \in {"NeverRun", "Idle"}

\* The instant recorded as `start`, which becomes last_run.
StartOfDriver == now

\* The value Operation::run produces: the counter of the tests, fetch_and_inc.
RunValue == Len(starts)

\* Operation::run starts on behalf of call c, the driver of batch b.
Execution(c, b) == [time |-> now, batch |-> b, by |-> c, value |-> RunValue]

\* drop(state): the holder of the state lock once call c has dropped its guard,
\* before it returns the future that sleeps, runs or waits.
DropStateForgotten(c) == c
DropState(c) == 0

\* decide(), nothing running: the call becomes the driver of a new batch.
\* It takes the state lock, creates the batch, sets the state to Running and
\* drops the lock.  The returned future is awaited at once: when the delay is
\* already over (always from NeverRun) nothing suspends before Operation::run
\* starts; otherwise the driver sleeps.
DecideDrive(c) ==
    /\ pc[c] = "decide"
    /\ stateLock = 0
    /\ NothingRunning(state)
    /\ LET b == Len(batches) + 1
           delayed_start == DelayedStart(state)
       IN
        /\ batches' = Append(batches, RunningStateRunning(<<>>))
        /\ batchLock' = Append(batchLock, 0)
        /\ state' = Running(b)
        /\ IF now >= delayed_start
           THEN /\ pc' = [pc EXCEPT ![c] = "run"]
                /\ starts' = Append(starts, Execution(c, b))
                /\ loc' = [loc EXCEPT ![c] = [batch |-> b, start |-> StartOfDriver,
                                              delayed_start |-> delayed_start,
                                              value |-> RunValue]]
           ELSE /\ pc' = [pc EXCEPT ![c] = "delay"]
                /\ loc' = [loc EXCEPT ![c] = [batch |-> b, start |-> StartOfDriver,
                                              delayed_start |-> delayed_start,
                                              value |-> NoValue]]
                /\ UNCHANGED starts
    /\ hist' = [hist EXCEPT ![c].found = state.tag, ![c].seen = finished,
                             ![c].last_run = IF state.tag = "Idle" THEN state.last_run
                                             ELSE NoValue]
    /\ stateLock' = DropState(c)
    /\ UNCHANGED <<now, chan, ret, finished, together, cvars>>

\* The driver future: the timer of sleep_until fires, at delayed_start or
\* later, and Operation::run starts.
RunStart(c) ==
    /\ pc[c] = "delay"
    /\ now >= loc[c].delayed_start
    /\ pc' = [pc EXCEPT ![c] = "run"]
    /\ loc' = [loc EXCEPT ![c].value = RunValue]
    /\ starts' = Append(starts, Execution(c, loc[c].batch))
    /\ UNCHANGED <<now, state, stateLock, batches, batchLock, chan, ret,
                   finished, hist, together, cvars>>

\* The driver future: Operation::run returns; the driver awaits the batch lock.
RunEnd(c) ==
    /\ pc[c] = "run"
    /\ pc' = [pc EXCEPT ![c] = "notify"]
    /\ finished' = finished \cup {loc[c].value}
    /\ UNCHANGED <<now, state, stateLock, batches, batchLock, loc, chan, ret,
                   starts, hist, together, cvars>>

\* What waiter.send(value.clone()) puts in a waiter's channel.
SentValueStale(v) == IF v > 0 THEN v - 1 ELSE v + 1
SentValue(v) == v

\* The waiters the driver sends the value to: all those drained from the batch.
\* A send to a dropped receiver fails and the result is ignored (let _ =).
ReceiversUntilDropped(ws) ==
    {ws[i] : i \in {j \in 1..Len(ws) : \A k \in 1..j : pc[ws[k]] = "waiting"}}
Receivers(ws) == {ws[i] : i \in 1..Len(ws)}

\* The driver future: it takes the batch lock, sends the value to every waiter
\* and marks the batch Finished.  A batch found Finished is the unreachable!()
\* panic.  The batch lock is kept: the guard lives to the end of the block.
Notify(c) ==
    LET b == loc[c].batch IN
    /\ pc[c] = "notify"
    /\ batchLock[b] = 0
    /\ batchLock' = [batchLock EXCEPT ![b] = c]
    /\ IF batches[b].tag = "Running"
       THEN /\ chan' = [w \in Calls |->
                          IF w \in Receivers(batches[b].waiters) /\ pc[w] = "waiting"
                          THEN SentValue(loc[c].value) ELSE chan[w]]
            /\ batches' = [batches EXCEPT ![b] = RunningStateFinished(loc[c].value)]
            /\ pc' = [pc EXCEPT ![c] = "setIdle"]
       ELSE /\ pc' = [pc EXCEPT ![c] = "panicked"]
            /\ UNCHANGED <<chan, batches>>
    /\ UNCHANGED <<now, state, stateLock, loc, ret, starts, finished, hist, together, cvars>>

\* The driver future: it takes the state lock, marks the throttle Idle, drops
\* both locks and returns the value.
SetIdle(c) ==
    /\ pc[c] = "setIdle"
    /\ stateLock = 0
    /\ state' = Idle(loc[c].start)
    /\ batchLock' = [batchLock EXCEPT ![loc[c].batch] = 0]
    /\ ret' = [ret EXCEPT ![c] = loc[c].value]
    /\ pc' = [pc EXCEPT ![c] = "done"]
    /\ loc' = [loc EXCEPT ![c] = [NoLoc EXCEPT !.batch = loc[c].batch]]
    /\ UNCHANGED <<now, stateLock, batches, chan, starts, finished, hist, together, cvars>>

\* decide(), something running: the call takes the state lock and, holding it,
\* awaits the lock of the running batch.
DecideJoin(c) ==
    /\ pc[c] = "decide"
    /\ stateLock = 0
    /\ ~NothingRunning(state)
    /\ stateLock' = c
    /\ loc' = [loc EXCEPT ![c].batch = state.batch]
    /\ pc' = [pc EXCEPT ![c] = "joinBatch"]
    /\ hist' = [hist EXCEPT ![c].found = state.tag, ![c].seen = finished]
    /\ UNCHANGED <<now, state, batches, batchLock, chan, ret, starts, finished, together, cvars>>

\* The match of the join path on the batch: RunningState::Running, the
\* operation has not completed and waiters may still register.
BatchPendingAlways(b) == TRUE
BatchPending(b) == batches[b].tag = "Running"

\* decide(), join path: with the batch lock, a Running batch gets the sender of
\* a fresh channel and the call awaits the receiver; a Finished batch gives its
\* value at once.  Both locks are dropped.
JoinBatch(c) ==
    LET b == loc[c].batch IN
    /\ pc[c] = "joinBatch"
    /\ batchLock[b] = 0
    /\ stateLock' = DropState(c)
    /\ IF BatchPending(b)
       THEN /\ batches' = [batches EXCEPT ![b].waiters = Append(@, c)]
            /\ pc' = [pc EXCEPT ![c] = "waiting"]
            /\ UNCHANGED <<ret, hist>>
       ELSE /\ ret' = [ret EXCEPT ![c] = batches[b].value]
            /\ pc' = [pc EXCEPT ![c] = "done"]
            /\ hist' = [hist EXCEPT ![c].found = "Finished"]
            /\ UNCHANGED batches
    /\ UNCHANGED <<now, state, batchLock, loc, chan, starts, finished, together, cvars>>

\* The future of the driver of batch b is alive: it holds running_state_for_later.
DriverAlive(b) ==
    \E d \in Calls : loc[d].batch = b /\ pc[d] \in {"delay", "run", "notify", "setIdle"}

\* Batch b, an Arc, is still referenced: by the throttle state or by its driver.
BatchAlive(b) == (state.tag = "Running" /\ state.batch = b) \/ DriverAlive(b)

\* The sender of call c's channel still exists: it sits in the waiters of a
\* batch that is alive.  A sender is dropped with its batch.
SenderAlive(c) ==
    \E b \in 1..Len(batches) : BatchAlive(b) /\ c \in Receivers(batches[b].waiters)

\* The join future: receiver.await.unwrap() returns the value that was sent, and
\* panics when the sender was dropped without sending.
Receive(c) ==
    /\ pc[c] = "waiting"
    /\ chan[c] # NoValue \/ ~SenderAlive(c)
    /\ IF chan[c] # NoValue
       THEN /\ ret' = [ret EXCEPT ![c] = chan[c]]
            /\ pc' = [pc EXCEPT ![c] = "done"]
       ELSE /\ pc' = [pc EXCEPT ![c] = "panicked"]
            /\ UNCHANGED ret
    /\ chan' = [chan EXCEPT ![c] = NoValue]
    /\ UNCHANGED <<now, state, stateLock, batches, batchLock, loc,
                   starts, finished, hist, together, cvars>>

\* What dropping the future of call c does to the throttle state: nothing.
\* The driver future has no drop guard.
StateAfterCancelReset(c) ==
    IF pc[c] \in {"delay", "run", "notify"} THEN Idle(loc[c].start) ELSE state
StateAfterCancel(c) == state

\* The task of call c is cancelled: its future is dropped at the await point it
\* is suspended at.  The lock guards it holds are dropped, an operation in
\* flight is dropped with it, and its receiver is dropped.
Cancel(c) ==
    /\ pc[c] \in {"decide", "delay", "run", "notify", "setIdle", "joinBatch", "waiting"}
    /\ pc' = [pc EXCEPT ![c] = "cancelled"]
    /\ hist' = [hist EXCEPT ![c].dropped = IF pc[c] = "waiting" /\ chan[c] # NoValue
                                             THEN "notified" ELSE pc[c]]
    /\ stateLock' = IF stateLock = c THEN 0 ELSE stateLock
    /\ batchLock' = [b \in 1..Len(batchLock) |->
                        IF batchLock[b] = c THEN 0 ELSE batchLock[b]]
    /\ state' = StateAfterCancel(c)
    /\ chan' = [chan EXCEPT ![c] = NoValue]
    /\ UNCHANGED <<now, batches, loc, ret, starts, finished, together, cvars>>

\* Some driver sleeps until an instant that is still ahead.
SleeperAhead == \E c \in Calls : pc[c] = "delay" /\ loc[c].delayed_start > now

\* Time passes.
Tick ==
    /\ now < MaxTime \/ SleeperAhead
    /\ now' = now + 1
    /\ UNCHANGED <<state, stateLock, batches, batchLock, pc, loc, chan, ret,
                   starts, finished, hist, together, cvars>>

Step(c) ==
    \/ NextCall(c)
    \/ DecideDrive(c)
    \/ RunStart(c)
    \/ RunEnd(c)
    \/ Notify(c)
    \/ SetIdle(c)
    \/ DecideJoin(c)
    \/ JoinBatch(c)
    \/ Receive(c)

-----------------------------------------------------------------------------
(* The lazy ServerState *)

\* Result<&C::State>: Ok of the state in the cell, or Err of the factory's error.
Ok(v) == [ok |-> TRUE, value |-> v]
Err(e) == [ok |-> FALSE, value |-> e]

\* ServerState::new: an empty OnceCell, whose semaphore has one permit.
ServerStateNewEager ==
    /\ cell = 0
    /\ permit = 0
    /\ cpc = [c \in StateCalls |-> "notStarted"]
    /\ cret = [c \in StateCalls |-> Err(NoValue)]
    /\ chow = [c \in StateCalls |-> "none"]
    /\ attempts = <<>>
    /\ behind = [c \in StateCalls |-> 0]
    /\ configuration \in Configurations
    /\ confCalls = 0
    /\ confSeen = "none"
    /\ confAt = {}
    /\ handles = <<[configuration |-> configuration, state |-> 1]>>
    /\ via = [c \in StateCalls |-> 0]
ServerStateNew ==
    /\ cell = NoValue
    /\ permit = 0
    /\ cpc = [c \in StateCalls |-> "notStarted"]
    /\ cret = [c \in StateCalls |-> Err(NoValue)]
    /\ chow = [c \in StateCalls |-> "none"]
    /\ attempts = <<>>
    /\ behind = [c \in StateCalls |-> 0]
    /\ configuration \in Configurations
    /\ confCalls = 0
    /\ confSeen = "none"
    /\ confAt = {}
    /\ handles = <<[configuration |-> configuration, state |-> 1]>>
    /\ via = [c \in StateCalls |-> 0]

\* OnceCell::initialized: the value is set, and the semaphore closed with it.
InitializedNever == FALSE
Initialized == cell # NoValue

\* A task calls state(): get_or_try_init returns the value of an initialized
\* cell at once, and otherwise awaits the permit of the cell's semaphore.
\* Calls are interchangeable, so they are issued in the order of their ids.
StateCall(c) ==
    /\ cpc[c] = "notStarted"
    /\ \A d \in StateCalls : d < c => cpc[d] # "notStarted"
    /\ IF Initialized
       THEN /\ cpc' = [cpc EXCEPT ![c] = "done"]
            /\ cret' = [cret EXCEPT ![c] = Ok(cell)]
            /\ chow' = [chow EXCEPT ![c] = "cached"]
       ELSE /\ cpc' = [cpc EXCEPT ![c] = "acquire"]
            /\ UNCHANGED <<cret, chow>>
    /\ \E h \in 1..Len(handles) : via' = [via EXCEPT ![c] = h]
    /\ UNCHANGED <<cell, permit, attempts, behind,
                   configuration, confCalls, confSeen, confAt, handles, tvars>>

\* The semaphore of the cell has its permit to give.
PermitFreeAlways == TRUE
PermitFree == permit = 0

\* get_or_try_init, the permit is acquired: the closure runs, and with it the
\* factory, try_init_state.
AcquirePermit(c) ==
    /\ cpc[c] = "acquire"
    /\ ~Initialized
    /\ PermitFree
    /\ permit' = c
    /\ cpc' = [cpc EXCEPT ![c] = "init"]
    /\ chow' = [chow EXCEPT ![c] = "ran"]
    /\ attempts' = Append(attempts, [by |-> c, result |-> "running"])
    /\ UNCHANGED <<cell, cret, behind, configuration, confCalls, confSeen, confAt, handles, via, tvars>>

\* get_or_try_init, the acquire fails because the semaphore was closed: the
\* cell was initialized while the call waited, and its value is returned.
AcquireClosed(c) ==
    /\ cpc[c] = "acquire"
    /\ Initialized
    /\ cpc' = [cpc EXCEPT ![c] = "done"]
    /\ cret' = [cret EXCEPT ![c] = Ok(cell)]
    /\ chow' = [chow EXCEPT ![c] = "waited"]
    /\ UNCHANGED <<cell, permit, attempts, behind,
                   configuration, confCalls, confSeen, confAt, handles, via, tvars>>

\* The attempt of call c, the one still running.
AttemptOf(c) == CHOOSE i \in 1..Len(attempts) :
                    attempts[i].by = c /\ attempts[i].result = "running"

\* What a successful attempt leaves behind: the cell holds the state the factory
\* made (here the index of the attempt), and the permit is forgotten, never
\* given back, as the semaphore is closed.
SetValueDropped(c, v) == [cell |-> NoValue, permit |-> 0]
SetValue(c, v) == [cell |-> v, permit |-> c]

\* try_init_state returns Ok(state): the state is stored and returned.
InitOk(c) ==
    /\ cpc[c] = "init"
    /\ LET i == AttemptOf(c) IN
        /\ cell' = SetValue(c, i).cell
        /\ permit' = SetValue(c, i).permit
        /\ cret' = [cret EXCEPT ![c] = Ok(i)]
        /\ attempts' = [attempts EXCEPT ![i].result = "ok"]
    /\ cpc' = [cpc EXCEPT ![c] = "done"]
    /\ UNCHANGED <<chow, behind, configuration, confCalls, confSeen, confAt, handles, via, tvars>>

\* The holder of the permit after the SemaphorePermit of call c is dropped: the
\* permit goes back to the semaphore.
PermitLeaked(c) == c
PermitDropped(c) == 0

\* The calls that return the error of the failed invocation of call c: call c
\* alone.  The closure's Err goes to the caller of get_or_try_init, and the calls
\* waiting for the permit are not told.
FailureToldToWaiters(c) == {c} \cup {d \in StateCalls : cpc[d] = "acquire"}
FailureToldTo(c) == {c}

\* try_init_state returns Err(e): the permit is dropped, nothing is stored and
\* the error is returned.
InitErr(c) ==
    /\ cpc[c] = "init"
    /\ LET i == AttemptOf(c) IN
        /\ cret' = [d \in StateCalls |-> IF d \in FailureToldTo(c) THEN Err(i) ELSE cret[d]]
        /\ attempts' = [attempts EXCEPT ![i].result = "err"]
        /\ behind' = [d \in StateCalls |->
                         IF cpc[d] = "acquire" /\ behind[d] = 0 THEN i ELSE behind[d]]
    /\ permit' = PermitDropped(c)
    /\ cpc' = [d \in StateCalls |-> IF d \in FailureToldTo(c) THEN "done" ELSE cpc[d]]
    /\ UNCHANGED <<cell, chow, configuration, confCalls, confSeen, confAt, handles, via, tvars>>

\* The task of a state() call is cancelled: its future is dropped while it
\* awaits the permit, or while the factory runs, and then the permit it holds
\* is dropped with it.
CancelState(c) ==
    /\ cpc[c] \in {"acquire", "init"}
    /\ IF cpc[c] = "init"
       THEN /\ permit' = PermitDropped(c)
            /\ attempts' = [attempts EXCEPT ![AttemptOf(c)].result = "cancelled"]
       ELSE UNCHANGED <<permit, attempts>>
    /\ cpc' = [cpc EXCEPT ![c] = "cancelled"]
    /\ UNCHANGED <<cell, cret, chow, behind,
                   configuration, confCalls, confSeen, confAt, handles, via, tvars>>

\* The phase the cell is in: empty, being initialized, or initialized.
CellPhase ==
    IF Initialized THEN "initialized"
    ELSE IF \E c \in StateCalls : cpc[c] = "init" THEN "initializing"
    ELSE "empty"

\* What configuration() returns and what it leaves in the cell: the field, and
\* the cell as it was.
ConfigurationThroughState ==
    [value |-> configuration, cell |-> IF Initialized THEN cell ELSE 0]
ConfigurationResult == [value |-> configuration, cell |-> cell]

\* A task calls configuration(): &self.configuration.
ConfigurationCall ==
    /\ confCalls < MaxConfigCalls
    /\ confCalls' = confCalls + 1
    /\ confSeen' = ConfigurationResult.value
    /\ cell' = ConfigurationResult.cell
    /\ confAt' = confAt \cup {CellPhase}
    /\ UNCHANGED <<permit, cpc, cret, chow, attempts, behind, configuration,
                   handles, via, tvars>>

\* Clone for ServerState: the configuration is cloned, and the Arc of the
\* ApplicationState is cloned, which points to the same ApplicationState.
CloneDeep(h) == [configuration |-> h.configuration, state |-> h.state + 1]
Clone(h) == [configuration |-> h.configuration, state |-> h.state]

\* A task clones one of the ServerState values there are.
CloneServerState ==
    /\ Len(handles) <= MaxClones
    /\ \E k \in 1..Len(handles) : handles' = Append(handles, Clone(handles[k]))
    /\ UNCHANGED <<cell, permit, cpc, cret, chow, attempts, behind,
                   configuration, confCalls, confSeen, confAt, via, tvars>>

StateStep(c) ==
    \/ StateCall(c)
    \/ AcquirePermit(c)
    \/ AcquireClosed(c)
    \/ InitOk(c)
    \/ InitErr(c)

-----------------------------------------------------------------------------

Init == ThrottleNew /\ ServerStateNew

Next == Tick \/ \E c \in Calls : Step(c)

Spec == Init /\ [][Next]_vars

StateNext == ConfigurationCall \/ \E c \in StateCalls : StateStep(c)

StateSpec == Init /\ [][StateNext]_vars

\* The ServerState and its clones, with state() calls made through any of them.
CloneNext == CloneServerState \/ \E c \in StateCalls : StateStep(c)

CloneSpec == Init /\ [][CloneNext]_vars

\* The ServerState with state() callers that may be cancelled.
StateCancelNext == \E c \in StateCalls : StateStep(c) \/ CancelState(c)

StateCancelSpec == Init /\ [][StateCancelNext]_vars

\* The scheduling the claims about the termination of state() assume: every
\* call is polled again and again, the factory included, so it terminates.  A
\* cancellation may happen, and nothing makes it happen.
FairStateSpec == StateCancelSpec /\ \A c \in StateCalls : WF_vars(StateStep(c))

\* The throttle with callers that may be cancelled.
CancelNext == Next \/ \E c \in Calls : Cancel(c)

CancelSpec == Init /\ [][CancelNext]_vars

\* The scheduling the claims about termination assume: every task is polled
\* again when it can make progress, and timers fire.
FairSpec == Spec /\ WF_vars(Tick) /\ \A c \in Calls : WF_vars(Step(c))

\* The same scheduling with callers that may be cancelled: a cancellation may
\* happen, and nothing makes it happen.
FairCancelSpec == CancelSpec /\ WF_vars(Tick) /\ \A c \in Calls : WF_vars(Step(c))

-----------------------------------------------------------------------------
(* The claims about the Throttle *)

\* The calls that have returned.
Done == {c \in Calls : pc[c] = "done"}
\* The calls that are executing Operation::run.
Executing == {c \in Calls : pc[c] = "run"}
\* The calls that were issued.
Issued == {c \in Calls : pc[c] # "notStarted"}
\* The executions of the operation, by their index in starts.
Execs == 1..Len(starts)

\* C1: at most one execution of Operation::run is in progress at any instant.
C1_AtMostOneExecution == Cardinality(Executing) <= 1

\* A second execution is in progress while another call is joining its batch.
C1_Witness ==
    /\ Len(starts) >= 2
    /\ \E c, d \in Calls : pc[c] = "run" /\ pc[d] = "waiting" /\ loc[d].batch = loc[c].batch

\* C2: two successive executions start at least Interval apart.
C2_MinIntervalBetweenStarts ==
    \A i \in Execs : i > 1 => starts[i].time - starts[i - 1].time >= Interval

\* C3: every call of next() that was issued eventually returns.
C3_EveryCallReturns ==
    \A c \in Calls : (pc[c] # "notStarted") ~> (pc[c] = "done")

\* C4: every call that returned, driver or waiter, returned the value produced
\* by the execution of its own batch, so all calls of a batch return one value.
C4_BatchSharesOneValue ==
    /\ \A c \in Done : \E i \in Execs :
            starts[i].batch = loc[c].batch /\ starts[i].value = ret[c]
    /\ \A c, d \in Done : loc[c].batch = loc[d].batch => ret[c] = ret[d]

\* A driver and two waiters of the same batch have all returned.
C4_Witness ==
    \E c, d, e \in Done :
        /\ c # d /\ d # e /\ c # e
        /\ loc[c].batch = loc[d].batch /\ loc[d].batch = loc[e].batch
        /\ hist[c].found = "NeverRun" /\ hist[d].found = "Running" /\ hist[e].found = "Running"

\* C5 as stated: calls issued together at time 0 on a fresh throttle, once all
\* have returned, saw exactly one execution and returned one value.
C5_OneExecutionForCallsAtZero ==
    (together /\ Issued # {} /\ Issued = Done) =>
        /\ Len(starts) = 1
        /\ \A c, d \in Done : ret[c] = ret[d]

\* No call has found the throttle Idle.
NoneFoundIdle == \A c \in Calls : hist[c].found # "Idle"

\* C5 as amended: calls issued together at time 0 on a fresh throttle, none of
\* which finds the throttle Idle, see at most one execution, exactly one once a
\* call has returned, and the calls that return all return one value.
C5_OneExecutionUnlessFoundIdle ==
    (together /\ NoneFoundIdle) =>
        /\ Len(starts) <= 1
        /\ Done # {} => Len(starts) = 1
        /\ \A c, d \in Done : ret[c] = ret[d]

\* All the calls were issued together at time 0, none found the throttle Idle
\* and all have returned.
C5_Witness ==
    /\ together /\ NoneFoundIdle
    /\ Done = Calls
    /\ Len(starts) = 1

\* C6: a call that found the throttle Running is never a driver: it neither
\* delays nor executes, it joins the batch it found, and no batch has more than
\* one execution.
C6_JoinersNeverExecute ==
    /\ \A c \in Calls : hist[c].found = "Running" =>
            /\ pc[c] \in {"joinBatch", "waiting", "done"}
            /\ \A i \in Execs : starts[i].by # c
    /\ \A i, j \in Execs : starts[i].batch = starts[j].batch => i = j

\* Two calls have joined one batch, which has had its one execution.
C6_Witness ==
    \E c, d \in Calls :
        /\ c # d
        /\ hist[c].found = "Running" /\ hist[d].found = "Running"
        /\ pc[c] = "done" /\ pc[d] = "waiting"
        /\ loc[c].batch = loc[d].batch
        /\ \E i \in Execs : starts[i].batch = loc[c].batch

\* C7: no call returns the value of an execution that had already returned when
\* the call inspected the throttle state, and a call that found the throttle
\* Idle has driven an execution of its own before it returns.
C7_NoFinishedResultServed ==
    \A c \in Done :
        /\ ret[c] \notin hist[c].seen
        /\ hist[c].found = "Idle" => \E i \in Execs : starts[i].by = c

-----------------------------------------------------------------------------
(* The claims about the lazy ServerState *)

\* The state() calls that have returned.
StateDone == {c \in StateCalls : cpc[c] = "done"}
\* The state() calls that are running the factory.
Initializing == {c \in StateCalls : cpc[c] = "init"}
\* The invocations of the factory, by their index in attempts.
Attempts == 1..Len(attempts)

\* C8: at most one invocation of try_init_state is in progress at any instant.
C8_OneFactoryInFlight == Cardinality(Initializing) <= 1

\* After a failed attempt, one call runs the factory while two others wait for
\* the permit.
C8_Witness ==
    /\ Len(attempts) >= 2
    /\ Initializing # {}
    /\ Cardinality({c \in StateCalls : cpc[c] = "acquire"}) >= 2

\* C9: the factory succeeds at most once and is never invoked after it has
\* succeeded; every call that returns a State returns the one in the cell, and a
\* call made after the success returns it without invoking the factory.
C9_NoFactoryAfterSuccess ==
    /\ Cardinality({i \in Attempts : attempts[i].result = "ok"}) <= 1
    /\ \A i \in Attempts : attempts[i].result = "ok" => i = Len(attempts)
    /\ \A c \in StateDone : cret[c].ok => cret[c] = Ok(cell)
    /\ \A c \in StateCalls : chow[c] = "cached" =>
            /\ c \in StateDone /\ cret[c] = Ok(cell)
            /\ \A i \in Attempts : attempts[i].by # c

\* After a failed and a successful attempt, two later calls got the cached State.
C9_Witness ==
    /\ \E i, j \in Attempts : attempts[i].result = "err" /\ attempts[j].result = "ok"
    /\ Cardinality({c \in StateDone : chow[c] = "cached"}) >= 2

\* No invocation of the factory has failed.
FactorySucceeds == \A i \in Attempts : attempts[i].result # "err"

\* C10: on a cell whose factory succeeds, the factory is invoked at most once,
\* exactly once when a call has returned, and all calls return that one State.
C10_OneFactoryRunForAll ==
    FactorySucceeds =>
        /\ Len(attempts) <= 1
        /\ StateDone # {} => Len(attempts) = 1
        /\ \A c \in StateDone : cret[c] = Ok(cell) /\ cell # NoValue

\* All calls have returned after one invocation of the factory, and at least two
\* of them had waited behind it.
C10_Witness ==
    /\ FactorySucceeds
    /\ StateDone = StateCalls
    /\ Len(attempts) = 1
    /\ Cardinality({c \in StateCalls : chow[c] = "waited"}) >= 2

\* C11: a failed invocation of the factory caches nothing and gives the permit
\* back: its caller returns its error, the cell is empty while no invocation has
\* succeeded, the permit is free for the next call when the failure is the last
\* invocation, no call returns without the factory unless the cell holds a
\* State, and the State of a later successful invocation is the one cached and
\* served.
C11_FailureCachesNothing ==
    /\ \A i \in Attempts : attempts[i].result = "err" =>
            /\ cell # i
            /\ cpc[attempts[i].by] = "done"
            /\ cret[attempts[i].by] = [ok |-> FALSE, value |-> i]
            /\ i = Len(attempts) => cell = NoValue /\ permit = 0
    /\ (\A i \in Attempts : attempts[i].result # "ok") => cell = NoValue
    /\ \A c \in StateCalls : chow[c] \in {"cached", "waited"} => Initialized
    /\ \A j \in Attempts : attempts[j].result = "ok" =>
            /\ cell = j
            /\ \A c \in StateDone : chow[c] \in {"cached", "waited"} =>
                    cret[c] = [ok |-> TRUE, value |-> j]

\* The first invocation failed and its caller returned the error, the second,
\* by another call, succeeded, and a later call was served the cached State.
C11_Witness ==
    /\ Len(attempts) = 2
    /\ attempts[1].result = "err" /\ attempts[2].result = "ok"
    /\ attempts[1].by # attempts[2].by
    /\ cret[attempts[1].by] = [ok |-> FALSE, value |-> 1]
    /\ \E c \in StateDone : chow[c] = "cached" /\ cret[c] = [ok |-> TRUE, value |-> 2]

C13_ConfigurationNeverInitializes ==
    /\ [][configuration' = configuration]_vars
    /\ [][confCalls' # confCalls =>
            /\ confSeen' = configuration
            /\ UNCHANGED <<cell, permit, attempts, cpc, cret>>]_vars
    /\ []((\A c \in StateCalls : cpc[c] = "notStarted") =>
            cell = NoValue /\ attempts = <<>> /\ permit = 0)

\* configuration() was called on an empty cell, on a cell being initialized and
\* on an initialized cell, and returned the configuration of the construction.
C13_Witness ==
    /\ confAt = {"empty", "initializing", "initialized"}
    /\ confSeen = configuration
    /\ Len(attempts) = 1

\* The calls that drove a batch, and the calls that joined one.
Drivers == {c \in Calls : hist[c].found \in {"NeverRun", "Idle"}}
Joiners == {c \in Calls : hist[c].found = "Running"}
\* The calls whose future was dropped while they waited, unnotified, in batch b.
DroppedWaiters(b) ==
    {w \in Joiners : loc[w].batch = b /\ hist[w].dropped = "waiting"}

\* C14: with waiters that may be dropped, no driver fails; once a batch is
\* marked Finished every waiter of it that is still waiting has been sent its
\* value, and every waiter that returned has returned it; a driver that
\* returned has returned the value of its batch and has taken the throttle out
\* of the Running state of that batch.
C14_DroppedWaiterHarmless ==
    /\ \A d \in Drivers : pc[d] # "panicked"
    /\ \A b \in 1..Len(batches) : batches[b].tag = "Finished" =>
            \A w \in Joiners : loc[w].batch = b =>
                /\ pc[w] = "waiting" => chan[w] = batches[b].value
                /\ pc[w] = "done" => ret[w] = batches[b].value
    /\ \A d \in Drivers : pc[d] = "done" =>
            /\ batches[loc[d].batch].tag = "Finished"
            /\ ret[d] = batches[loc[d].batch].value
            /\ state.tag = "Running" => state.batch # loc[d].batch

\* A waiter was dropped before its batch completed; the driver of the batch
\* returned its value and left the throttle Idle, and another waiter of the
\* batch, a call issued after the dropped one, returned the same value.
C14_Witness ==
    \E d \in Drivers : \E v \in Joiners :
        /\ pc[d] = "done" /\ pc[v] = "done"
        /\ loc[v].batch = loc[d].batch
        /\ ret[v] = ret[d] /\ ret[d] # NoValue
        /\ state.tag = "Idle"
        /\ \E w \in DroppedWaiters(loc[d].batch) : w < v

\* C15: a call waiting in a batch is always released in the end, whether by a
\* value or by a failure, even when the driver of its batch is dropped before
\* it notifies the batch.
C15_WaitersReleased ==
    \A c \in Calls : (pc[c] = "waiting") ~> (pc[c] # "waiting")

\* The drivers whose future was dropped before it notified its batch.
DroppedDrivers == {d \in Drivers : hist[d].dropped \in {"delay", "run", "notify"}}

\* C16: no next() call panics, whatever is dropped: the sender of a waiting
\* call is never dropped without a value having been sent, and no driver finds
\* its batch already Finished.
C16_NoCallPanics == \A c \in Calls : pc[c] # "panicked"

\* The driver of a batch was dropped before it notified the batch, and a call
\* still waits in that batch, its sender alive and nothing sent.
C16_Witness ==
    \E d \in DroppedDrivers : \E w \in Joiners :
        /\ loc[w].batch = loc[d].batch
        /\ pc[w] = "waiting" /\ chan[w] = NoValue
        /\ SenderAlive(w)

\* C17: with factory invocations that terminate, every state() call that
\* awaits the permit or runs the factory returns in the end, unless it is itself
\* dropped, whatever invocations failed or were dropped before; and while the
\* cell is empty and no invocation is running, the permit is there to be taken
\* by the next call.
C17_CellNeverWedged ==
    /\ \A c \in StateCalls :
            (cpc[c] \in {"acquire", "init"}) ~> (cpc[c] \in {"done", "cancelled"})
    /\ [](~Initialized /\ Initializing = {} => permit = 0)

\* A call that waited behind a failed invocation ran the factory itself and
\* returned the State, after another invocation was dropped with its caller.
C17_Witness ==
    \E c \in StateDone :
        /\ behind[c] # 0 /\ chow[c] = "ran" /\ cret[c].ok
        /\ cell = cret[c].value
        /\ \E i \in Attempts : attempts[i].result = "cancelled"

\* C18: no circular wait between the two locks: never does a driver hold the
\* lock of its batch and await the state lock while a joining call holds the
\* state lock and awaits the lock of that batch.
C18_NoCircularWait ==
    ~\E d, j \in Calls :
        /\ pc[d] = "setIdle" /\ batchLock[loc[d].batch] = d
        /\ pc[j] = "joinBatch" /\ stateLock = j
        /\ loc[j].batch = loc[d].batch

\* C19: while the throttle is Idle, last_run is the instant at which the latest
\* execution of the operation, the one that has just completed, began.
C19_LastRunIsExecutionStart ==
    state.tag = "Idle" => state.last_run = starts[Len(starts)].time

\* The drivers in flight, whose locals are live, and those of them whose
\* operation has started.
DriversInFlight == {c \in Drivers : pc[c] \in {"delay", "run", "notify", "setIdle"}}
DriversStarted == {c \in Drivers : pc[c] \in {"run", "notify", "setIdle"}}
\* The instant at which the operation started on behalf of driver c.
ExecutionStart(c) == starts[CHOOSE i \in Execs : starts[i].by = c].time

\* C20: a driver that found NeverRun never sleeps and starts the operation at
\* the instant it was chosen; a driver that found Idle{last_run} starts the
\* operation no earlier than last_run + interval, and at the instant it was
\* chosen when last_run + interval had passed by then; the delay a driver asks
\* for, from the instant it is chosen, is never more than interval.
C20_DelayWithinInterval ==
    /\ \A c \in DriversInFlight :
            /\ loc[c].delayed_start - loc[c].start <= Interval
            /\ hist[c].found = "NeverRun" => pc[c] # "delay"
            /\ (hist[c].found = "Idle" /\ hist[c].last_run + Interval <= loc[c].start)
                    => pc[c] # "delay"
    /\ \A c \in DriversStarted :
            /\ \E i \in Execs : starts[i].by = c
            /\ hist[c].found = "NeverRun" => ExecutionStart(c) = loc[c].start
            /\ hist[c].found = "Idle" =>
                    /\ ExecutionStart(c) >= hist[c].last_run + Interval
                    /\ hist[c].last_run + Interval <= loc[c].start
                            => ExecutionStart(c) = loc[c].start

\* A driver that found the throttle Idle slept and started the operation at
\* last_run + interval exactly, while another call waits in its batch.
C20_Witness ==
    \E c \in DriversStarted :
        /\ hist[c].found = "Idle" /\ pc[c] = "run"
        /\ loc[c].start < hist[c].last_run + Interval
        /\ ExecutionStart(c) = hist[c].last_run + Interval
        /\ \E w \in Joiners : pc[w] = "waiting" /\ loc[w].batch = loc[c].batch

\* C21: a batch marked Finished has no waiter left in its list and never
\* changes again, so no call registers into it; every call that registered in
\* it and still waits has been sent the value of the batch, a value sent is
\* never replaced by another, and a call is registered in one batch at most
\* and once.
C21_NoLostWakeUp ==
    /\ [](\A b \in 1..Len(batches) : batches[b].tag = "Finished" =>
            /\ batches[b].waiters = <<>>
            /\ \A w \in Calls : (pc[w] = "waiting" /\ loc[w].batch = b) =>
                    chan[w] = batches[b].value)
    /\ [](\A b \in 1..Len(batches) :
            /\ Cardinality(Receivers(batches[b].waiters)) = Len(batches[b].waiters)
            /\ \A a \in 1..Len(batches) : a # b =>
                    Receivers(batches[a].waiters) \cap Receivers(batches[b].waiters) = {})
    /\ [][\A b \in 1..Len(batches) :
            batches[b].tag = "Finished" => batches'[b] = batches[b]]_vars
    /\ [][\A w \in Calls :
            chan[w] # NoValue => chan'[w] \in {chan[w], NoValue}]_vars

\* The driver of a batch has completed and returned; two calls had registered
\* in the batch, one has received the value and returned it, the other has
\* been sent it and has yet to receive it.
C21_Witness ==
    \E d \in Drivers : \E v, w \in Joiners :
        /\ pc[d] = "done" /\ loc[v].batch = loc[d].batch /\ loc[w].batch = loc[d].batch
        /\ pc[v] = "done" /\ ret[v] = ret[d]
        /\ pc[w] = "waiting" /\ chan[w] = ret[d]

\* C22: a batch is created Running and, once Finished, stays Finished with the
\* value it was given; the driver that is about to notify its batch, or that
\* sleeps or runs the operation before that, finds the batch Running, so no
\* driver completes a batch twice.
C22_BatchFinishesOnce ==
    /\ [](\A d \in Calls : pc[d] \in {"delay", "run", "notify"} =>
            batches[loc[d].batch].tag = "Running")
    /\ [](\A d \in Drivers : pc[d] # "panicked")
    /\ [](\A d, e \in DriversInFlight : d # e => loc[d].batch # loc[e].batch)
    /\ [][\A b \in 1..Len(batches) : batches[b].tag = "Finished" =>
            batches'[b].tag = "Finished" /\ batches'[b].value = batches[b].value]_vars

\* Two batches were created one after the other and each was marked Finished by
\* its own driver, with its own value.
C22_Witness ==
    /\ Len(batches) = 2
    /\ batches[1].tag = "Finished" /\ batches[2].tag = "Finished"
    /\ batches[1].value # batches[2].value
    /\ \E d \in Drivers : pc[d] = "setIdle" /\ loc[d].batch = 2

\* C23: a call that sleeps out its delay, runs the operation or awaits its
\* receiver holds neither the state lock nor the lock of any batch.
C23_NoLockAcrossAwait ==
    \A c \in Calls : pc[c] \in {"delay", "run", "waiting"} =>
        /\ stateLock # c
        /\ \A b \in 1..Len(batchLock) : batchLock[b] # c

\* While the operation runs for a driver, two other calls have inspected the
\* state and registered in its batch, and every lock is free.
C23_Witness ==
    \E d \in Drivers :
        /\ pc[d] = "run"
        /\ Len(batches[loc[d].batch].waiters) = 2
        /\ \A w \in Calls \ {d} : pc[w] = "waiting"
        /\ stateLock = 0
        /\ \A b \in 1..Len(batchLock) : batchLock[b] = 0

\* C24: the step of a joining call that gets the lock of its batch and finds
\* the batch Finished returns the value of the batch, and leaves the batches,
\* their waiters, the executions and the throttle state as they were; such a
\* call is never a waiter and never has the operation run.
C24_FinishedBatchReturnsAtOnce ==
    /\ [][\A c \in Calls :
            (/\ pc[c] = "joinBatch" /\ pc'[c] \notin {"joinBatch", "cancelled"}
             /\ batches[loc[c].batch].tag = "Finished")
            => /\ pc'[c] = "done"
               /\ ret'[c] = batches[loc[c].batch].value
               /\ batches' = batches /\ starts' = starts /\ state' = state]_vars
    /\ [](\A c \in Calls : hist[c].found = "Finished" =>
            /\ \A i \in Execs : starts[i].by # c
            /\ \A b \in 1..Len(batches) : c \notin Receivers(batches[b].waiters))

\* A call found the throttle Running and its batch Finished, and returned the
\* value of that batch: the driver had been dropped after it marked the batch
\* and before it marked the throttle Idle.
C24_Witness ==
    \E c \in Calls : \E d \in Drivers :
        /\ hist[c].found = "Finished" /\ pc[c] = "done"
        /\ hist[d].dropped = "setIdle" /\ loc[d].batch = loc[c].batch
        /\ ret[c] = batches[loc[c].batch].value /\ ret[c] # NoValue

\* C25: whenever the throttle is Running a batch whose lock is free, that batch
\* is still Running, so a joining call never finds a Finished batch.
C25_FreeRunningBatchIsPending ==
    /\ (state.tag = "Running" /\ batchLock[state.batch] = 0) =>
            batches[state.batch].tag = "Running"
    /\ \A c \in Calls : hist[c].found # "Finished"

\* C26: every execution of the operation was started by a call that found
\* nothing running and became a driver, one execution per driver at most, so
\* there are never more executions than calls made; and while every call made
\* has returned, a step that issues no call, the passing of time, starts none.
C26_ExecutionsOnlyForDrivers ==
    /\ [](Len(starts) <= Cardinality(Issued))
    /\ [](\A i \in Execs :
            /\ starts[i].by \in Drivers
            /\ \A j \in Execs : i # j => starts[i].by # starts[j].by)
    /\ [][((\A c \in Issued : pc[c] = "done") /\ pc' = pc) => starts' = starts]_vars

\* Every call has returned, fewer executions than calls were made, more than
\* one, and the clock has run to its end.
C26_Witness ==
    /\ \A c \in Calls : pc[c] = "done"
    /\ Len(starts) > 1 /\ Len(starts) < MaxCalls
    /\ now = MaxTime

\* C27: the cell is empty or holds the State of a successful invocation of the
\* factory; at most one invocation ever succeeds; a cell that holds a State
\* holds it for ever; and the cell is empty while no invocation has succeeded,
\* however many have failed or were dropped.
C27_CellSetAtMostOnce ==
    /\ [](cell = NoValue \/ (cell \in Attempts /\ attempts[cell].result = "ok"))
    /\ [](Cardinality({i \in Attempts : attempts[i].result = "ok"}) <= 1)
    /\ []((\A i \in Attempts : attempts[i].result # "ok") => cell = NoValue)
    /\ [][cell # NoValue => cell' = cell]_vars

\* Two invocations failed and one was dropped before the one that succeeded;
\* the cell holds the State of that one.
C27_Witness ==
    /\ Len(attempts) = 4
    /\ Cardinality({i \in Attempts : attempts[i].result = "err"}) = 2
    /\ Cardinality({i \in Attempts : attempts[i].result = "cancelled"}) = 1
    /\ attempts[4].result = "ok" /\ cell = 4

\* The state() calls made so far.
StateIssued == {c \in StateCalls : cpc[c] # "notStarted"}

\* C28: until a state() call is made the cell is empty, the permit is free and
\* the factory has not been invoked, whatever else was done with the
\* ServerState; every invocation of the factory is by a state() call that was
\* made; and the first state() call never finds the cell initialized.
C28_ConstructionDoesNotInitialize ==
    /\ StateIssued = {} => (attempts = <<>> /\ cell = NoValue /\ permit = 0)
    /\ \A i \in Attempts : attempts[i].by \in StateIssued /\ chow[attempts[i].by] = "ran"
    /\ Len(attempts) <= Cardinality(StateIssued)
    /\ cpc[1] = "done" => Len(attempts) >= 1
    /\ chow[1] # "cached"

\* After the construction and a configuration() call on the empty cell, the
\* first state() call runs the first invocation of the factory.
C28_Witness ==
    /\ StateIssued = {1}
    /\ confAt = {"empty"} /\ confCalls >= 1
    /\ attempts = <<[by |-> 1, result |-> "running"]>>
    /\ cell = NoValue

\* C29: the throttle is NeverRun exactly while no batch was created; its state
\* changes only from NeverRun or Idle to Running, and from Running to Idle, the
\* latter in the step in which the driver of the Running batch returns.
C29_StateCycle ==
    /\ [](state.tag = "NeverRun" <=> batches = <<>>)
    /\ [][state' # state =>
            \/ state.tag \in {"NeverRun", "Idle"} /\ state'.tag = "Running"
            \/ /\ state.tag = "Running" /\ state'.tag = "Idle"
               /\ \E d \in Drivers :
                    /\ pc[d] = "setIdle" /\ pc'[d] = "done"
                    /\ loc[d].batch = state.batch]_vars

\* The throttle has gone from NeverRun through Running, Idle and Running to
\* Idle again.
C29_Witness ==
    /\ state.tag = "Idle"
    /\ Len(batches) = 2
    /\ \A b \in 1..2 : batches[b].tag = "Finished"

\* C30: every clone of the ServerState points to the ApplicationState of the
\* one constructed, so to its cell, and has its configuration; whatever
\* ServerState the calls are made through, at most one of them runs the factory
\* at a time, every call that returns a State returns the State in the cell,
\* and a call that finds the cell initialized does not invoke the factory.
C30_ClonesShareTheCell ==
    /\ \A k \in 1..Len(handles) :
            /\ handles[k].state = handles[1].state
            /\ handles[k].configuration = configuration
    /\ \A c \in StateIssued : via[c] \in 1..Len(handles)
    /\ Cardinality(Initializing) <= 1
    /\ \A c \in StateDone : cret[c].ok => cret[c] = [ok |-> TRUE, value |-> cell]
    /\ \A c \in StateCalls : chow[c] = "cached" =>
            \A i \in Attempts : attempts[i].by # c

\* The State was made by a call through the clone, after which a call through
\* the ServerState constructed and another call through the clone returned it
\* without an invocation of the factory.
C30_Witness ==
    /\ Len(handles) = 2 /\ Len(attempts) = 1
    /\ via[attempts[1].by] = 2 /\ attempts[1].result = "ok"
    /\ \E c, d \in StateDone :
            /\ via[c] = 1 /\ via[d] = 2
            /\ chow[c] = "cached" /\ chow[d] = "cached"
            /\ cret[c] = cret[d] /\ cret[c] = [ok |-> TRUE, value |-> 1]

====
